---------------------------- MODULE Spec2Model ----------------------------
(***************************************************************************)
(* A model of the ScratchABlock intermediate representation (core.py) and  *)
(* of the pipeline driver (apply_xform.py).                                *)
(*                                                                         *)
(* Text is modelled as a sequence of one-character strings, so that        *)
(* splitting, digit tests, formatting and prefixes are computed the way    *)
(* the Python code computes them.  Python objects are records tagged by    *)
(* their class in field t.                                                 *)
(***************************************************************************)
EXTENDS Integers, Sequences, FiniteSets, TLC

VARIABLES
    a, b, op, res,          \* two expressions, the operation applied, its result
    cond, ncond, nnegs,     \* a condition, the value after nnegs negations
    inst1, inst2, irun, ires, \* two instructions, the operation run, its result
    cfg, out, dumped,       \* a graph, the dump stream, whether the dump ran
    pc, args, script, idx,  \* handle_file: position, arguments, parser
                            \* script, script entries completed
    log, outfile, dbg, exc  \* mutations of the graph, the output stream,
                            \* debug files written, the exception raised

vars == <<a, b, op, res, cond, ncond, nnegs, inst1, inst2, irun, ires,
          cfg, out, dumped, pc, args, script, idx, log, outfile, dbg, exc>>

exprVars == <<a, b, op, res>>
condVars == <<cond, ncond, nnegs>>
instVars == <<inst1, inst2, irun, ires>>
dumpVars == <<cfg, out, dumped>>
pipeVars == <<pc, args, script, idx, log, outfile, dbg, exc>>

-----------------------------------------------------------------------------
(* Bounds of the model *)

MaxNameLen == 3
MaxVal == 1
MaxNegs == 2
MaxDepth == 2
MaxCondLen == 3
MaxNodes == 3
MaxEdges == 2
MaxScriptLen == 2

-----------------------------------------------------------------------------
(* Text: characters, code point order, digits *)

Digits == <<"0", "1", "2", "3", "4", "5", "6", "7", "8", "9">>
Upper == <<"A", "B", "C", "D", "E", "F", "G", "H", "I", "J", "K", "L", "M",
           "N", "O", "P", "Q", "R", "S", "T", "U", "V", "W", "X", "Y", "Z">>
Lower == <<"a", "b", "c", "d", "e", "f", "g", "h", "i", "j", "k", "l", "m",
           "n", "o", "p", "q", "r", "s", "t", "u", "v", "w", "x", "y", "z">>

Range(s) == {s[i] : i \in DOMAIN s}
IndexOf(s, c) == CHOOSE i \in DOMAIN s : s[i] = c

\* ord(c) for the ASCII characters the model uses
Ord(c) ==
    IF c \in Range(Digits) THEN 47 + IndexOf(Digits, c)
    ELSE IF c \in Range(Upper) THEN 64 + IndexOf(Upper, c)
    ELSE IF c \in Range(Lower) THEN 96 + IndexOf(Lower, c)
    ELSE IF c = "_" THEN 95
    ELSE 32

\* str.__lt__: lexicographic by code point
RECURSIVE StrLt(_, _)
StrLt(s, t) ==
    IF t = << >> THEN FALSE
    ELSE IF s = << >> THEN TRUE
    ELSE IF s[1] # t[1] THEN Ord(s[1]) < Ord(t[1])
    ELSE StrLt(Tail(s), Tail(t))

IsDigitChar(c) == c \in Range(Digits)
IsAlphaChar(c) == c \in Range(Upper) \cup Range(Lower)

\* str.isdigit()
isdigit(s) == s # << >> /\ \A i \in DOMAIN s : IsDigitChar(s[i])

\* int(s) for a run of decimal digits
RECURSIVE int(_)
int(s) ==
    IF s = << >> THEN 0
    ELSE 10 * int(SubSeq(s, 1, Len(s) - 1)) + (IndexOf(Digits, s[Len(s)]) - 1)

Bool(p) == IF p THEN "True" ELSE "False"

-----------------------------------------------------------------------------
(* natural_sort_key *)

\* length of the longest prefix of s holding no digit / only digits
RECURSIVE NonDigitRun(_)
NonDigitRun(s) ==
    IF s = << >> \/ IsDigitChar(s[1]) THEN 0 ELSE 1 + NonDigitRun(Tail(s))

RECURSIVE DigitRun(_)
DigitRun(s) ==
    IF s = << >> \/ ~IsDigitChar(s[1]) THEN 0 ELSE 1 + DigitRun(Tail(s))

\* re.split("([0-9]+)", s): the text between digit runs and the digit runs,
\* alternating, starting and ending with a (possibly empty) non-digit text
RECURSIVE re_split(_)
re_split(s) ==
    LET n == NonDigitRun(s) IN
    IF n = Len(s) THEN <<s>>
    ELSE LET rest == SubSeq(s, n + 1, Len(s))
             d == DigitRun(rest)
         IN <<SubSeq(s, 1, n), SubSeq(rest, 1, d)>>
                \o re_split(SubSeq(rest, d + 1, Len(rest)))

natural_sort_key(s) ==
    LET arr == re_split(s) IN
    [i \in DOMAIN arr |-> IF isdigit(arr[i]) THEN int(arr[i]) ELSE arr[i]]

\* list.__lt__ on two keys: the first differing elements decide, else the
\* shorter list is smaller.  Elements at even positions are the integers,
\* elements at odd positions the texts; positions never mix the two.
RECURSIVE KeyLtFrom(_, _, _)
KeyLtFrom(k1, k2, i) ==
    IF i > Len(k1) \/ i > Len(k2) THEN Len(k1) < Len(k2)
    ELSE IF i % 2 = 0
         THEN IF k1[i] # k2[i] THEN k1[i] < k2[i] ELSE KeyLtFrom(k1, k2, i + 1)
         ELSE IF k1[i] # k2[i] THEN StrLt(k1[i], k2[i])
              ELSE KeyLtFrom(k1, k2, i + 1)

KeyLt(k1, k2) == KeyLtFrom(k1, k2, 1)

-----------------------------------------------------------------------------
(* Expression model: REG, VALUE, ADDR, MEM, SFUNC; None and str objects *)

None == [t |-> "None"]
Str(s) == [t |-> "str", s |-> s]
REG(name) == [t |-> "REG", name |-> name]
VALUE(val, base) == [t |-> "VALUE", val |-> val, base |-> base]
ADDR(addr) == [t |-> "ADDR", addr |-> addr]
MEM(type, base, offset) ==
    [t |-> "MEM", type |-> type, mbase |-> base, offset |-> offset]
\* SFUNC defines no __eq__: its instances compare by identity, so the model
\* gives each instance its object identity
SFUNC(name, id) == [t |-> "SFUNC", name |-> name, id |-> id]

\* SimpleExpr.comment, the class attribute
comment == << >>

\* type(x).__name__
TypeName(x) ==
    CASE x.t = "REG" -> <<"R", "E", "G">>
      [] x.t = "VALUE" -> <<"V", "A", "L", "U", "E">>
      [] x.t = "ADDR" -> <<"A", "D", "D", "R">>
      [] x.t = "MEM" -> <<"M", "E", "M">>
      [] x.t = "SFUNC" -> <<"S", "F", "U", "N", "C">>
      [] x.t = "str" -> <<"s", "t", "r">>
      [] OTHER -> <<"N", "o", "n", "e", "T", "y", "p", "e">>

\* x is y, for the objects whose identity the model tracks
Is(x, y) ==
    /\ x.t = y.t
    /\ x.t \in {"SFUNC", "None"}
    /\ (x.t = "SFUNC" => x.id = y.id)

REG__eq__(self, other) == self.t = other.t /\ self.name = other.name

VALUE__eq__(self, other) == self.t = other.t /\ self.val = other.val

ADDR__eq__(self, other) == self.t = other.t /\ self.addr = other.addr

RECURSIVE PyEq(_, _)

MEM__eq__(self, other) ==
    /\ self.t = other.t
    /\ self.type = other.type
    /\ PyEq(self.mbase, other.mbase)
    /\ self.offset = other.offset

\* x.__eq__(y): "True", "False" or "NotImplemented"
DunderEq(x, y) ==
    CASE x.t = "REG" -> Bool(REG__eq__(x, y))
      [] x.t = "VALUE" -> Bool(VALUE__eq__(x, y))
      [] x.t = "ADDR" -> Bool(ADDR__eq__(x, y))
      [] x.t = "MEM" -> Bool(MEM__eq__(x, y))
      [] x.t = "str" -> IF y.t = "str" THEN Bool(x.s = y.s) ELSE "NotImplemented"
      [] OTHER -> IF Is(x, y) THEN "True" ELSE "NotImplemented"

\* x == y: x.__eq__(y), then the reflected y.__eq__(x), then identity
PyEq(x, y) ==
    LET r == DunderEq(x, y) IN
    IF r # "NotImplemented" THEN r = "True"
    ELSE LET r2 == DunderEq(y, x) IN
         IF r2 # "NotImplemented" THEN r2 = "True" ELSE Is(x, y)

RECURSIVE PyLt(_, _)

REG__lt__(self, other) ==
    IF self.t # other.t
    THEN Bool(StrLt(TypeName(self), TypeName(other)))
    ELSE Bool(KeyLt(natural_sort_key(self.name), natural_sort_key(other.name)))

\* (self.base, self.offset) < (other.base, other.offset): the first pair of
\* elements that are not == decides
TupleLt(self, other) ==
    IF ~PyEq(self.mbase, other.mbase) THEN PyLt(self.mbase, other.mbase)
    ELSE IF self.offset # other.offset THEN Bool(self.offset < other.offset)
    ELSE "False"

MEM__lt__same_type_only(self, other) ==
    IF self.t = other.t THEN TupleLt(self, other) ELSE "TypeError"

MEM__lt__(self, other) ==
    IF self.t = other.t THEN TupleLt(self, other)
    ELSE Bool(StrLt(TypeName(self), TypeName(other)))

\* x.__lt__(y): only REG and MEM define it
DunderLt(x, y) ==
    CASE x.t = "REG" -> REG__lt__(x, y)
      [] x.t = "MEM" -> MEM__lt__(x, y)
      [] OTHER -> "NotImplemented"

\* y.__gt__(x), the reflected operation: no class defines it
DunderGt(y, x) == "NotImplemented"

\* x < y: "True", "False" or "TypeError"
PyLt(x, y) ==
    LET r == DunderLt(x, y) IN
    IF r # "NotImplemented" THEN r
    ELSE LET r2 == DunderGt(y, x) IN
         IF r2 # "NotImplemented" THEN r2 ELSE "TypeError"


-----------------------------------------------------------------------------
(* The states of the parts of the program a specification leaves alone *)

IdleExpr == a = None /\ b = None /\ op = "none" /\ res = "none"
IdleCond == cond = None /\ ncond = None /\ nnegs = 0
IdleInst == inst1 = None /\ inst2 = None /\ irun = "none" /\ ires = "none"
IdleDump == cfg = None /\ out = << >> /\ dumped = FALSE
IdlePipe ==
    /\ pc = "none" /\ args = None /\ script = << >>
    /\ idx = 0 /\ log = << >> /\ outfile = None /\ dbg = {} /\ exc = ""

-----------------------------------------------------------------------------
(* Expressions compared: x == y and x < y on operands of every variant *)

RegNames == {<<"r", "2">>, <<"r", "1", "0">>}
ExprRegs == {REG(n) : n \in RegNames}
ExprValues == {VALUE(v, base) : v \in 0..MaxVal, base \in {16, 10}}
ExprAddrs == {ADDR(<<"r", "2">>), ADDR(<<"l", "1">>)}
\* three SFUNC instances, two of them with the same name
ExprSFuncs == {SFUNC(<<"f">>, 1), SFUNC(<<"f">>, 2), SFUNC(<<"g">>, 3)}
MemTypes == {<<"u", "8">>, <<"u", "3", "2">>}
ExprMems ==
    {MEM(ty, bs, off) : ty \in MemTypes,
                        bs \in ExprRegs \cup ExprValues \cup ExprAddrs,
                        off \in 0..MaxVal}
Exprs == ExprRegs \cup ExprValues \cup ExprAddrs \cup ExprSFuncs \cup ExprMems

InitExpr ==
    /\ a \in Exprs /\ b \in Exprs /\ op = "none" /\ res = "none"
    /\ IdleCond /\ IdleInst /\ IdleDump /\ IdlePipe

\* a == b
Eq ==
    /\ op = "none"
    /\ op' = "eq"
    /\ res' = Bool(PyEq(a, b))
    /\ UNCHANGED <<a, b, condVars, instVars, dumpVars, pipeVars>>

\* a < b
Lt ==
    /\ op = "none"
    /\ op' = "lt"
    /\ res' = PyLt(a, b)
    /\ UNCHANGED <<a, b, condVars, instVars, dumpVars, pipeVars>>

NextExpr == Eq \/ Lt

SpecExpr == InitExpr /\ [][NextExpr]_vars

-----------------------------------------------------------------------------
(* Registers ordered: a < b, b < a and a == b on two registers *)

NameChars == {"r", "0", "1", "2"}
Names == UNION {[1..n -> NameChars] : n \in 1..MaxNameLen}
NamedRegs == {REG(n) : n \in Names}

InitReg ==
    /\ a \in NamedRegs /\ b \in NamedRegs /\ op = "none" /\ res = "none"
    /\ IdleCond /\ IdleInst /\ IdleDump /\ IdlePipe

Order ==
    /\ op = "none"
    /\ op' = "order"
    /\ res' = [lt |-> PyLt(a, b), gt |-> PyLt(b, a), eq |-> Bool(PyEq(a, b))]
    /\ UNCHANGED <<a, b, condVars, instVars, dumpVars, pipeVars>>

NextReg == Order

SpecReg == InitReg /\ [][NextReg]_vars

-----------------------------------------------------------------------------
(* Claims on expressions *)

\* all fields of two expressions of the same variant are equal
RECURSIVE SameFields(_, _)
SameFields(x, y) ==
    CASE x.t = "REG" -> x.name = y.name
      [] x.t = "SFUNC" -> x.name = y.name
      [] x.t = "VALUE" -> x.val = y.val /\ x.base = y.base
      [] x.t = "ADDR" -> x.addr = y.addr
      [] x.t = "MEM" ->
            /\ x.type = y.type
            /\ x.mbase.t = y.mbase.t /\ SameFields(x.mbase, y.mbase)
            /\ x.offset = y.offset

\* C3: two expressions are == if and only if they are of the same variant
\* and all their fields are equal (name for REG and SFUNC, value and display
\* base for VALUE, address for ADDR, type, base and offset for MEM).
C3_EqIffSameVariantAndFields ==
    op = "eq" => (res = "True" <=> (a.t = b.t /\ SameFields(a, b)))

\* C5: < on registers is irreflexive and transitive, exactly one of a < b
\* and b < a holds for two registers of different names, and
\* REG("r2") < REG("r10").
C5_RegStrictTotalOrder ==
    op = "order" =>
        /\ (a = b => res.lt = "False")
        /\ (a.name # b.name => ((res.lt = "True") # (res.gt = "True")))
        /\ \A c \in NamedRegs :
              (res.lt = "True" /\ PyLt(b, c) = "True") => PyLt(a, c) = "True"
        /\ (a.name = <<"r", "2">> /\ b.name = <<"r", "1", "0">>
                => res.lt = "True")

\* the variant names in alphabetical order
VariantRank(t) ==
    CASE t = "ADDR" -> 1 [] t = "MEM" -> 2 [] t = "REG" -> 3
      [] t = "SFUNC" -> 4 [] t = "VALUE" -> 5

\* C6: a < b fails with an error when both operands are of the variants
\* VALUE, ADDR, SFUNC; with a MEM or a REG on the left and an expression of
\* another variant on the right it does not fail and is the comparison of
\* the two variant names.
C6_OrderingErrorsAndFallback ==
    op = "lt" =>
        /\ (a.t \in {"VALUE", "ADDR", "SFUNC"} /\ b.t \in {"VALUE", "ADDR", "SFUNC"}
                => res = "TypeError")
        /\ (a.t \in {"MEM", "REG"} /\ b.t # a.t
                => res = Bool(VariantRank(a.t) < VariantRank(b.t)))

C6_Witness ==
    op = "lt" /\ a.t = "MEM" /\ b.t = "VALUE" /\ res = "True"


-----------------------------------------------------------------------------
(* Condition algebra: SimpleCond and CompoundCond *)

EQ == <<"=", "=">>
NE == <<"!", "=">>
GT == <<">">>
LT == <<"<">>
GE == <<">", "=">>
LE == <<"<", "=">>
AND == <<"&", "&">>
OR == <<"|", "|">>

SimpleCond(arg1, cop, arg2) ==
    [t |-> "SCond", arg1 |-> arg1, op |-> cop, arg2 |-> arg2]
CompoundCond(l) == [t |-> "CCond", args |-> l]

\* a table that negates > to <
SimpleCond_NEG_strict ==
    (EQ :> NE) @@ (NE :> EQ) @@ (GT :> LT) @@ (LT :> GE) @@ (GE :> LT)
        @@ (LE :> GT)

SimpleCond_NEG ==
    (EQ :> NE) @@ (NE :> EQ) @@ (GT :> LE) @@ (LT :> GE) @@ (GE :> LT)
        @@ (LE :> GT)

CompoundCond_NEG == (AND :> OR) @@ (OR :> AND)

SimpleCond_neg(self) ==
    SimpleCond(self.arg1, SimpleCond_NEG[self.op], self.arg2)

RECURSIVE neg(_)

\* a negation that keeps the connectives
CompoundCond_neg_keep(self) ==
    CompoundCond([i \in DOMAIN self.args |->
        IF self.args[i].t = "str" THEN self.args[i] ELSE neg(self.args[i])])

CompoundCond_neg(self) ==
    CompoundCond([i \in DOMAIN self.args |->
        IF self.args[i].t = "str"
        THEN Str(CompoundCond_NEG[self.args[i].s])
        ELSE neg(self.args[i])])

\* x.neg(), dispatched on the class of x
neg(x) == IF x.t = "SCond" THEN SimpleCond_neg(x) ELSE CompoundCond_neg(x)

\* CompoundCond.append
CompoundCond_append(self, cop, arg2) ==
    [self EXCEPT !.args = @ \o <<Str(cop), arg2>>]

\* SimpleCond.list / CompoundCond.list
list(x) == IF x.t = "SCond" THEN <<x>> ELSE x.args

RECURSIVE Depth(_)
Depth(x) ==
    IF x.t # "CCond" THEN 0
    ELSE 1 + CHOOSE d \in 0..MaxDepth :
                 /\ \A i \in DOMAIN x.args : Depth(x.args[i]) <= d
                 /\ \E i \in DOMAIN x.args : Depth(x.args[i]) = d

CondOps == {EQ, NE, GT, LT, GE, LE}
SimpleConds ==
    {SimpleCond(REG(<<"r", "2">>), o, y) :
        o \in CondOps, y \in {VALUE(0, 16), REG(<<"r", "1", "0">>)}}
AppendConds ==
    {SimpleCond(REG(<<"r", "1", "0">>), o, VALUE(0, 10)) : o \in {EQ, LT, GE}}

InitCond ==
    /\ cond \in SimpleConds /\ ncond = cond /\ nnegs = 0
    /\ IdleExpr /\ IdleInst /\ IdleDump /\ IdlePipe

\* CompoundCond([cond])
Wrap ==
    /\ nnegs = 0
    /\ Depth(cond) < MaxDepth
    /\ cond' = CompoundCond(<<cond>>)
    /\ ncond' = cond'
    /\ UNCHANGED <<nnegs, exprVars, instVars, dumpVars, pipeVars>>

\* cond.append(op, arg2)
AppendCond ==
    /\ nnegs = 0
    /\ cond.t = "CCond"
    /\ Len(cond.args) + 2 <= MaxCondLen
    /\ \E cop \in {AND, OR}, arg2 \in AppendConds :
          cond' = CompoundCond_append(cond, cop, arg2)
    /\ ncond' = cond'
    /\ UNCHANGED <<nnegs, exprVars, instVars, dumpVars, pipeVars>>

\* ncond = ncond.neg()
Neg ==
    /\ nnegs < MaxNegs
    /\ ncond' = neg(ncond)
    /\ nnegs' = nnegs + 1
    /\ UNCHANGED <<cond, exprVars, instVars, dumpVars, pipeVars>>

NextCond == Wrap \/ AppendCond \/ Neg

SpecCond == InitCond /\ [][NextCond]_vars

-----------------------------------------------------------------------------
(* Claims on conditions *)

\* C1: for every condition c, simple or compound, nested compounds
\* included, c.neg().neg() is structurally equal to c.
C1_NegInvolutive == nnegs = 2 => ncond = cond

C1_Witness ==
    /\ nnegs = 2 /\ ncond = cond
    /\ cond.t = "CCond" /\ Len(cond.args) = 3 /\ cond.args[1].t = "CCond"

\* the comparison operator and the connective a negation must produce
Opposite(o) ==
    CASE o = EQ -> NE [] o = NE -> EQ [] o = GT -> LE [] o = LE -> GT
      [] o = LT -> GE [] o = GE -> LT [] o = AND -> OR [] o = OR -> AND

\* the negation of x by De Morgan's rule, position by position
RECURSIVE DeMorgan(_)
DeMorgan(x) ==
    CASE x.t = "str" -> Str(Opposite(x.s))
      [] x.t = "SCond" -> [x EXCEPT !.op = Opposite(x.op)]
      [] x.t = "CCond" ->
            [x EXCEPT !.args = [i \in DOMAIN x.args |-> DeMorgan(x.args[i])]]

\* C2: CompoundCond.neg() returns a compound of the same length whose
\* element at every position is the negated sub-condition or the swapped
\* connective; CompoundCond([c1, &&, c2]).neg() is
\* CompoundCond([c1.neg(), ||, c2.neg()]).
C2_CompoundNegDeMorgan ==
    (nnegs = 1 /\ cond.t = "CCond") =>
        /\ ncond.t = "CCond"
        /\ Len(ncond.args) = Len(cond.args)
        /\ \A i \in DOMAIN cond.args : ncond.args[i] = DeMorgan(cond.args[i])
        /\ (Len(cond.args) = 3 /\ cond.args[2] = Str(AND)
                => ncond = CompoundCond(<<DeMorgan(cond.args[1]), Str(OR),
                                          DeMorgan(cond.args[3])>>))

C2_Witness ==
    /\ nnegs = 1 /\ cond.t = "CCond" /\ Len(cond.args) = 3
    /\ cond.args[1].t = "SCond" /\ cond.args[2] = Str(AND)
    /\ ncond.args[2] = Str(OR)


-----------------------------------------------------------------------------
(* Rendering of expressions: str(x) *)

HexDigits == <<"0", "1", "2", "3", "4", "5", "6", "7", "8", "9",
               "a", "b", "c", "d", "e", "f">>

\* "%x" % n
RECURSIVE Hex(_)
Hex(n) ==
    IF n < 16 THEN <<HexDigits[n + 1]>>
    ELSE Hex(n \div 16) \o <<HexDigits[(n % 16) + 1]>>

\* str(n)
RECURSIVE Dec(_)
Dec(n) ==
    IF n < 10 THEN <<Digits[n + 1]>>
    ELSE Dec(n \div 10) \o <<Digits[(n % 10) + 1]>>

REG__str__(self) == comment \o <<"$">> \o self.name

VALUE__str__(self) ==
    LET val == IF self.base = 16 THEN <<"0", "x">> \o Hex(self.val)
               ELSE Dec(self.val)
    IN comment \o val

ADDR__str__(self) == comment \o self.addr

SFUNC__str__(self) == self.name

RECURSIVE PyStr(_)

\* MEM defines no __str__: str() uses __repr__
MEM__repr__(self) ==
    IF self.offset = 0
    THEN comment \o <<"*", "(">> \o self.type \o <<"*", ")">>
            \o PyStr(self.mbase)
    ELSE comment \o <<"*", "(">> \o self.type \o <<"*", ")", "(">>
            \o PyStr(self.mbase) \o <<" ", "+", " ", "0", "x">>
            \o Hex(self.offset) \o <<")">>

\* str(x) for an expression, a str or None
PyStr(x) ==
    CASE x.t = "REG" -> REG__str__(x)
      [] x.t = "VALUE" -> VALUE__str__(x)
      [] x.t = "ADDR" -> ADDR__str__(x)
      [] x.t = "MEM" -> MEM__repr__(x)
      [] x.t = "SFUNC" -> SFUNC__str__(x)
      [] x.t = "str" -> x.s
      [] OTHER -> <<"N", "o", "n", "e">>

-----------------------------------------------------------------------------
(* Instruction model *)

OP_LIT == <<"L", "I", "T">>
OP_return == <<"r", "e", "t", "u", "r", "n">>
OP_goto == <<"g", "o", "t", "o">>
OP_call == <<"c", "a", "l", "l">>
OP_ASSIGN == <<"A", "S", "S", "I", "G", "N">>
OP_SFUNC == <<"S", "F", "U", "N", "C">>

\* Inst.__init__
Inst(dest, iop, iargs, addr) ==
    [t |-> "Inst", op |-> iop, dest |-> dest, args |-> iargs, addr |-> addr,
     comments |-> << >>]

\* self.comments[key] = value
SetComment(self, key, value) ==
    [self EXCEPT !.comments =
        [k \in DOMAIN self.comments \cup {key} |->
            IF k = key THEN value ELSE self.comments[k]]]

\* list.__eq__: the same length, and each pair of elements identical or ==
ListEq(x, y) ==
    /\ Len(x) = Len(y)
    /\ \A i \in DOMAIN x : Is(x[i], y[i]) \/ PyEq(x[i], y[i])

\* an equality that compares the address too
Inst__eq__with_addr(self, other) ==
    /\ self.op = other.op
    /\ PyEq(self.dest, other.dest)
    /\ ListEq(self.args, other.args)
    /\ self.addr = other.addr

Inst__eq__(self, other) ==
    /\ self.op = other.op
    /\ PyEq(self.dest, other.dest)
    /\ ListEq(self.args, other.args)

\* the outcome of a rendering: the text, or the exception raised
Ok(text) == [err |-> "", text |-> text]
Raise(err) == [err |-> err, text |-> << >>]

\* ", ".join([str(a) for a in args])
RECURSIVE JoinArgs(_)
JoinArgs(iargs) ==
    IF iargs = << >> THEN << >>
    ELSE IF Len(iargs) = 1 THEN PyStr(iargs[1])
    ELSE PyStr(iargs[1]) \o <<",", " ">> \o JoinArgs(Tail(iargs))

\* an infix rendering that never uses the compound-assignment form
InfixText_plain(self) ==
    IF Len(self.args) # 2 THEN Raise("AssertionError")
    ELSE Ok(PyStr(self.dest) \o <<" ", "=", " ">> \o PyStr(self.args[1])
                \o <<" ">> \o self.op \o <<" ">> \o PyStr(self.args[2]))

\* Inst.__str__, the infix operator: assert len(args) == 2, then the
\* compound-assignment form when dest == args[0]
InfixText(self) ==
    IF Len(self.args) # 2 THEN Raise("AssertionError")
    ELSE IF PyEq(self.dest, self.args[1])
    THEN Ok(PyStr(self.dest) \o <<" ">> \o self.op \o <<"=", " ">>
                \o PyStr(self.args[2]))
    ELSE Ok(PyStr(self.dest) \o <<" ", "=", " ">> \o PyStr(self.args[1])
                \o <<" ">> \o self.op \o <<" ">> \o PyStr(self.args[2]))

\* Inst.__str__, the operator named by letters: op(args), SFUNC re-homed
CallText(self) ==
    LET d == IF self.dest # None THEN PyStr(self.dest) \o <<" ", "=", " ">>
             ELSE << >>
    IN IF self.op = OP_SFUNC
       THEN IF self.args = << >> THEN Raise("IndexError")
            ELSE Ok(d \o PyStr(self.args[1]) \o <<"(">>
                        \o JoinArgs(Tail(self.args)) \o <<")">>)
       ELSE Ok(d \o self.op \o <<"(">> \o JoinArgs(self.args) \o <<")">>)

\* Inst.__str__ after the LIT check and the provenance line
BodyText(self) ==
    IF self.op = OP_return THEN Ok(self.op)
    ELSE IF self.op \in {OP_goto, OP_call}
    THEN IF self.args = << >> THEN Raise("IndexError")
         ELSE Ok(self.op \o <<" ">> \o PyStr(self.args[1]))
    ELSE IF self.op = OP_ASSIGN
    THEN IF self.args = << >> THEN Raise("IndexError")
         ELSE Ok(PyStr(self.dest) \o <<" ", "=", " ">> \o PyStr(self.args[1]))
    ELSE IF self.op = << >> THEN Raise("IndexError")
    ELSE IF ~IsAlphaChar(self.op[1]) THEN InfixText(self)
    ELSE CallText(self)

RECURSIVE Inst__str__(_)

\* str(v) for the value of an annotation
ValueStr(v) == IF v.t = "Inst" THEN Inst__str__(v) ELSE Ok(PyStr(v))

\* s = "// " + str(self.comments["org_inst"]) + "\n", or s = ""
ProvenanceLine(self) ==
    IF "org_inst" \in DOMAIN self.comments
    THEN LET r == ValueStr(self.comments["org_inst"]) IN
         IF r.err # "" THEN r
         ELSE Ok(<<"/", "/", " ">> \o r.text \o <<"\n">>)
    ELSE Ok(<< >>)

\* the provenance line, then the text of the operator
WithProvenance(self) ==
    LET s == ProvenanceLine(self) IN
    IF s.err # "" THEN s
    ELSE LET r == BodyText(self) IN
         IF r.err # "" THEN r ELSE Ok(s.text \o r.text)

\* a rendering that gives LIT its provenance line too
Inst__str__LIT_late(self) ==
    IF self.op = OP_LIT
    THEN LET s == ProvenanceLine(self) IN
         IF s.err # "" THEN s
         ELSE IF self.args = << >> THEN Raise("IndexError")
         ELSE Ok(s.text \o PyStr(self.args[1]))
    ELSE WithProvenance(self)

\* Inst.__str__: LIT returns its argument before anything else
Inst__str__(self) ==
    IF self.op = OP_LIT
    THEN IF self.args = << >> THEN Raise("IndexError")
         ELSE IF self.args[1].t # "str" THEN Raise("TypeError")
         ELSE Ok(self.args[1].s)
    ELSE WithProvenance(self)


-----------------------------------------------------------------------------
(* Instructions compared and rendered *)

R2 == REG(<<"r", "2">>)
R10 == REG(<<"r", "1", "0">>)
PLUS == <<"+">>
OP_foo == <<"f", "o", "o">>
Addresses == {None, Str(<<"1", "0">>)}

\* the instruction an org_inst annotation keeps
OrgInst == Inst(R2, OP_ASSIGN, <<R10>>, None)
Annotations ==
    {<<"org_inst", OrgInst>>, <<"org_inst", Str(<<"n", "o", "p">>)>>,
     <<"note", Str(<<"d", "e", "a", "d">>)>>}

EqInsts ==
    {Inst(d, o, l, None) :
        d \in {None, R2},
        o \in {PLUS, OP_ASSIGN},
        l \in {<<R2>>, <<R2, VALUE(0, 16)>>, <<R2, VALUE(0, 10)>>}}

StrInsts ==
    {Inst(d, o, l, None) :
        d \in {None, R2},
        o \in {OP_LIT, OP_return, OP_goto, OP_call, OP_ASSIGN, PLUS,
               OP_SFUNC, OP_foo},
        l \in {<< >>, <<Str(<<"n", "o", "p">>)>>, <<R2>>, <<R2, VALUE(10, 16)>>,
               <<R10, VALUE(10, 10)>>, <<SFUNC(<<"f">>, 1), R2, R10>>,
               <<R2, R10, ADDR(<<"l", "1">>)>>}}

InitInstEq ==
    /\ inst1 \in EqInsts /\ inst2 \in EqInsts
    /\ irun = "none" /\ ires = "none"
    /\ IdleExpr /\ IdleCond /\ IdleDump /\ IdlePipe

InitInstStr ==
    /\ inst1 \in StrInsts /\ inst2 = None
    /\ irun = "none" /\ ires = "none"
    /\ IdleExpr /\ IdleCond /\ IdleDump /\ IdlePipe

\* inst.addr = addr, before any rendering
SetAddr ==
    /\ irun # "str"
    /\ \E addr \in Addresses :
          \/ inst1' = [inst1 EXCEPT !.addr = addr] /\ inst2' = inst2
          \/ /\ inst2 # None
             /\ inst2' = [inst2 EXCEPT !.addr = addr] /\ inst1' = inst1
    /\ UNCHANGED <<irun, ires, exprVars, condVars, dumpVars, pipeVars>>

\* inst.comments[key] = value, before any rendering
Annotate ==
    /\ irun # "str"
    /\ \E kv \in Annotations :
          \/ inst1' = SetComment(inst1, kv[1], kv[2]) /\ inst2' = inst2
          \/ /\ inst2 # None
             /\ inst2' = SetComment(inst2, kv[1], kv[2]) /\ inst1' = inst1
    /\ UNCHANGED <<irun, ires, exprVars, condVars, dumpVars, pipeVars>>

\* inst1 == inst2
Compare ==
    /\ irun = "none"
    /\ irun' = "eq"
    /\ ires' = Bool(Inst__eq__(inst1, inst2))
    /\ UNCHANGED <<inst1, inst2, exprVars, condVars, dumpVars, pipeVars>>

\* str(inst1)
Render ==
    /\ irun = "none"
    /\ irun' = "str"
    /\ ires' = Inst__str__(inst1)
    /\ UNCHANGED <<inst1, inst2, exprVars, condVars, dumpVars, pipeVars>>

NextInstEq == SetAddr \/ Annotate \/ Compare
NextInstStr == SetAddr \/ Annotate \/ Render

SpecInstEq == InitInstEq /\ [][NextInstEq]_vars
SpecInstStr == InitInstStr /\ [][NextInstStr]_vars

-----------------------------------------------------------------------------
(* Claims on instructions *)

\* C4: two instructions are == if and only if their operator, destination
\* and arguments are equal; the address and the annotations, org_inst
\* included, never change the outcome, whether they were attached before
\* or after the comparison.
C4_InstEqIgnoresProvenance ==
    irun = "eq" =>
        /\ ires = Bool(/\ inst1.op = inst2.op
                       /\ PyEq(inst1.dest, inst2.dest)
                       /\ Len(inst1.args) = Len(inst2.args)
                       /\ \A i \in DOMAIN inst1.args :
                             PyEq(inst1.args[i], inst2.args[i]))
        /\ ires = Bool(Inst__eq__(inst1, inst2))

C4_Witness ==
    /\ irun = "eq" /\ ires = "True"
    /\ inst1.addr # inst2.addr
    /\ "org_inst" \in DOMAIN inst1.comments
    /\ "org_inst" \notin DOMAIN inst2.comments

StartsWith(text, p) ==
    Len(text) >= Len(p) /\ SubSeq(text, 1, Len(p)) = p

\* the text of the provenance line of an instruction that has one
OrgLine(i) ==
    LET v == i.comments["org_inst"] IN
    <<"/", "/", " ">>
        \o (IF v.t = "Inst" THEN <<"$", "r", "2", " ", "=", " ", "$", "r", "1", "0">> ELSE v.s)
        \o <<"\n">>

\* the text after the provenance line
AfterOrgLine(i, text) ==
    IF "org_inst" \in DOMAIN i.comments
    THEN SubSeq(text, Len(OrgLine(i)) + 1, Len(text))
    ELSE text

IsInfix(i) == i.op # << >> /\ ~IsAlphaChar(i.op[1])

\* C7: str() of an instruction whose operator starts with a non-letter:
\* with two arguments it is `dest op= arg1` when dest == arg0 and
\* `dest = arg0 op arg1` otherwise; with another number of arguments it
\* fails with an assertion error and yields no text.
C7_InfixRendering ==
    (irun = "str" /\ IsInfix(inst1)) =>
        IF Len(inst1.args) = 2
        THEN /\ ires.err = ""
             /\ AfterOrgLine(inst1, ires.text) =
                  IF PyEq(inst1.dest, inst1.args[1])
                  THEN PyStr(inst1.dest) \o <<" ">> \o inst1.op \o <<"=", " ">>
                           \o PyStr(inst1.args[2])
                  ELSE PyStr(inst1.dest) \o <<" ", "=", " ">>
                           \o PyStr(inst1.args[1]) \o <<" ">> \o inst1.op
                           \o <<" ">> \o PyStr(inst1.args[2])
        ELSE ires = [err |-> "AssertionError", text |-> << >>]

C7_Witness ==
    /\ irun = "str" /\ inst1.op = PLUS /\ inst1.dest = R2
    /\ inst1.args = <<R2, VALUE(10, 16)>>
    /\ ires.text = <<"$", "r", "2", " ", "+", "=", " ", "0", "x", "a">>

\* C8 as claimed: for every operator kind, LIT included, a rendering of an
\* instruction that carries org_inst starts with the line `// <provenance>`,
\* and a rendering of one that does not carry it has no such line.
C8_ProvenanceLineEveryKind ==
    (irun = "str" /\ ires.err = "") =>
        IF "org_inst" \in DOMAIN inst1.comments
        THEN StartsWith(ires.text, OrgLine(inst1))
        ELSE ~StartsWith(ires.text, <<"/", "/", " ">>)

\* C8 amended: the same for every operator kind but LIT; a LIT instruction
\* renders as its sole argument verbatim, with no provenance line, whether
\* or not it carries org_inst.
C8_ProvenanceLineButLIT ==
    (irun = "str" /\ ires.err = "") =>
        IF inst1.op = OP_LIT
        THEN inst1.args[1].t = "str" /\ ires.text = inst1.args[1].s
        ELSE IF "org_inst" \in DOMAIN inst1.comments
        THEN StartsWith(ires.text, OrgLine(inst1))
        ELSE ~StartsWith(ires.text, <<"/", "/", " ">>)

C8_Witness ==
    /\ irun = "str" /\ inst1.op = OP_LIT
    /\ "org_inst" \in DOMAIN inst1.comments
    /\ ires = [err |-> "", text |-> <<"n", "o", "p">>]


-----------------------------------------------------------------------------
(* Basic blocks and the graph container *)

\* BBlock.__init__ and BBlock.add
BBlock(addr) == [t |-> "BBlock", addr |-> addr, items |-> << >>]
BBlock_add(self, i) == [self EXCEPT !.items = Append(@, i)]

\* The graph container: the node addresses in insertion order, the payload
\* of each node (val, and dfsno when a numbering pass set it), and the edges
\* in insertion order, each with its optional condition
Graph == [t |-> "Graph", nodes |-> << >>, info |-> << >>, edges |-> << >>]

Graph_add_node(g, addr, val) ==
    [g EXCEPT !.nodes = Append(@, addr),
              !.info = [x \in DOMAIN g.info \cup {addr} |->
                           IF x = addr THEN [val |-> val] ELSE g.info[x]]]

Graph_add_edge(g, from, to, c) ==
    [g EXCEPT !.edges = Append(@, [from |-> from, to |-> to, cond |-> c])]

Graph_set_dfsno(g, addr, n) ==
    [g EXCEPT !.info[addr] = [val |-> @.val, dfsno |-> n]]

\* insert addr into a list sorted by key, after the entries that are not
\* greater (the sort is stable)
RECURSIVE InsertByKey(_, _)
InsertByKey(sorted, addr) ==
    IF sorted = << >> THEN <<addr>>
    ELSE IF KeyLt(natural_sort_key(addr), natural_sort_key(Head(sorted)))
    THEN <<addr>> \o sorted
    ELSE <<Head(sorted)>> \o InsertByKey(Tail(sorted), addr)

RECURSIVE SortByKey(_)
SortByKey(l) ==
    IF l = << >> THEN << >>
    ELSE InsertByKey(SortByKey(SubSeq(l, 1, Len(l) - 1)), l[Len(l)])

\* cfg.iter_sorted_nodes(): the addresses sorted by natural_sort_key
iter_sorted_nodes(g) == SortByKey(g.nodes)

\* cfg.pred(addr): the set of predecessors
pred(g, addr) == {g.edges[i].from : i \in {j \in DOMAIN g.edges : g.edges[j].to = addr}}

\* cfg.succ(addr): the successors in the order the edges were added
RECURSIVE SuccOf(_, _)
SuccOf(edges, addr) ==
    IF edges = << >> THEN << >>
    ELSE (IF Head(edges).from = addr THEN <<Head(edges).to>> ELSE << >>)
            \o SuccOf(Tail(edges), addr)

succ(g, addr) == SuccOf(g.edges, addr)

\* cfg.edge(from, to).get("cond")
edge_cond(g, from, to) ==
    LET i == CHOOSE j \in DOMAIN g.edges :
                 g.edges[j].from = from /\ g.edges[j].to = to
    IN g.edges[i].cond

\* sorted(S) for a set of strings
RECURSIVE sorted(_)
sorted(S) ==
    IF S = {} THEN << >>
    ELSE LET m == CHOOSE x \in S : \A y \in S \ {x} : StrLt(x, y)
         IN <<m>> \o sorted(S \ {m})

-----------------------------------------------------------------------------
(* dump_bblocks: each element of the stream is one write or print call *)

\* BBlock.dump with printer=str: one line per instruction, in order
BBlock_dump(self) ==
    [i \in DOMAIN self.items |->
        [kind |-> "item", indent |-> 0, text |-> Inst__str__(self.items[i]).text]]

\* a separator written before the first entry too
Separator_always(count) == <<[kind |-> "blank"]>>

\* if cnt > 0: stream.write("\n")
Separator(count) == IF count > 0 THEN <<[kind |-> "blank"]>> ELSE << >>

\* the body of the loop of dump_bblocks for one node; count is cnt
NodeLines(g, addr, count) ==
    Separator(count)
    \o <<[kind |-> "pred", preds |-> sorted(pred(g, addr))]>>
    \o (IF "dfsno" \in DOMAIN g.info[addr]
        THEN <<[kind |-> "dfs", dfsno |-> g.info[addr].dfsno]>> ELSE << >>)
    \o <<[kind |-> "label", addr |-> addr]>>
    \o (IF g.info[addr].val # None THEN BBlock_dump(g.info[addr].val)
        ELSE <<[kind |-> "placeholder"]>>)
    \o <<[kind |-> "exits",
          exits |-> [i \in DOMAIN succ(g, addr) |->
                        <<edge_cond(g, addr, succ(g, addr)[i]), succ(g, addr)[i]>>]]>>

\* the loop of dump_bblocks from the entry number count + 1 on
RECURSIVE DumpFrom(_, _, _)
DumpFrom(g, order, count) ==
    IF count >= Len(order) THEN << >>
    ELSE NodeLines(g, order[count + 1], count) \o DumpFrom(g, order, count + 1)

dump_bblocks(g) == DumpFrom(g, iter_sorted_nodes(g), 0)

-----------------------------------------------------------------------------
(* A graph built by the parser and the passes, then dumped *)

DumpAddrs == {<<"b", "2">>, <<"b", "1", "0">>, <<"b", "0", "2">>}
EdgeConds == {None, SimpleCond(REG(<<"r", "1">>), EQ, VALUE(0, 10))}

\* a block of two instructions
Block(addr) ==
    BBlock_add(BBlock_add(BBlock(addr), Inst(R2, OP_ASSIGN, <<R10>>, None)),
               Inst(R2, PLUS, <<R2, VALUE(1, 16)>>, None))

InitDump ==
    /\ cfg = Graph /\ out = << >> /\ dumped = FALSE
    /\ IdleExpr /\ IdleCond /\ IdleInst /\ IdlePipe

\* a node is added, with a block or without one
AddNode ==
    /\ ~dumped
    /\ Len(cfg.nodes) < MaxNodes
    /\ \E addr \in DumpAddrs \ Range(cfg.nodes) :
          \E val \in {None, Block(addr)} :
              cfg' = Graph_add_node(cfg, addr, val)
    /\ UNCHANGED <<out, dumped, exprVars, condVars, instVars, pipeVars>>

\* an edge is added between two nodes
AddEdge ==
    /\ ~dumped
    /\ Len(cfg.edges) < MaxEdges
    /\ \E from \in Range(cfg.nodes), to \in Range(cfg.nodes), c \in EdgeConds :
          /\ from # to
          /\ \A i \in DOMAIN cfg.edges :
                ~(cfg.edges[i].from = from /\ cfg.edges[i].to = to)
          /\ cfg' = Graph_add_edge(cfg, from, to, c)
    /\ UNCHANGED <<out, dumped, exprVars, condVars, instVars, pipeVars>>

\* a numbering pass gives the next node its DFS number
SetDfsno ==
    /\ ~dumped
    /\ \E i \in DOMAIN cfg.nodes :
          /\ "dfsno" \notin DOMAIN cfg.info[cfg.nodes[i]]
          /\ \A j \in 1..(i - 1) : "dfsno" \in DOMAIN cfg.info[cfg.nodes[j]]
          /\ cfg' = Graph_set_dfsno(cfg, cfg.nodes[i], i)
    /\ UNCHANGED <<out, dumped, exprVars, condVars, instVars, pipeVars>>

\* dump_bblocks(cfg, stream)
Dump ==
    /\ ~dumped
    /\ out' = dump_bblocks(cfg)
    /\ dumped' = TRUE
    /\ UNCHANGED <<cfg, exprVars, condVars, instVars, pipeVars>>

NextDump == AddNode \/ AddEdge \/ SetDfsno \/ Dump

SpecDump == InitDump /\ [][NextDump]_vars


-----------------------------------------------------------------------------
(* Claims on the dump *)

B2 == <<"b", "2">>
B10 == <<"b", "1", "0">>

IsLabel(l) == l.kind = "label"
OutEdges(addr) == SelectSeq(cfg.edges, LAMBDA e : e.from = addr)
InEdges(addr) == {i \in DOMAIN cfg.edges : cfg.edges[i].to = addr}

\* the address of the entry whose predecessor line is line p
EntryOf(p) ==
    IF out[p + 1].kind = "label" THEN out[p + 1].addr ELSE out[p + 2].addr

\* line p is a well-placed line of its kind
LineInPlace(p) ==
    LET l == out[p] n == Len(out) IN
    CASE l.kind = "blank" ->
            /\ p > 1 /\ p < n
            /\ out[p - 1].kind = "exits" /\ out[p + 1].kind = "pred"
      [] l.kind = "pred" ->
            /\ (p = 1 \/ out[p - 1].kind = "blank")
            /\ p + 1 <= n /\ out[p + 1].kind \in {"dfs", "label"}
            /\ (out[p + 1].kind = "dfs" => p + 2 <= n /\ out[p + 2].kind = "label")
            /\ \A i, j \in DOMAIN l.preds : i < j => StrLt(l.preds[i], l.preds[j])
            /\ Range(l.preds) = {cfg.edges[i].from : i \in InEdges(EntryOf(p))}
      [] l.kind = "dfs" ->
            /\ p > 1 /\ out[p - 1].kind = "pred"
            /\ p < n /\ out[p + 1].kind = "label"
            /\ "dfsno" \in DOMAIN cfg.info[out[p + 1].addr]
            /\ l.dfsno = cfg.info[out[p + 1].addr].dfsno
      [] l.kind = "label" ->
            /\ p > 1 /\ out[p - 1].kind \in {"pred", "dfs"}
            /\ (out[p - 1].kind = "dfs" <=> "dfsno" \in DOMAIN cfg.info[l.addr])
            /\ LET v == cfg.info[l.addr].val
                   k == IF v = None THEN 1 ELSE Len(v.items)
                   E == OutEdges(l.addr)
               IN /\ p + k + 1 <= n
                  /\ IF v = None THEN out[p + 1].kind = "placeholder"
                     ELSE \A i \in 1..k :
                             /\ out[p + i].kind = "item"
                             /\ out[p + i].text = Inst__str__(v.items[i]).text
                  /\ out[p + k + 1].kind = "exits"
                  /\ out[p + k + 1].exits =
                        [i \in DOMAIN E |-> <<E[i].cond, E[i].to>>]
      [] l.kind = "item" -> p > 1 /\ out[p - 1].kind \in {"label", "item"}
      [] l.kind = "placeholder" -> p > 1 /\ out[p - 1].kind = "label"
      [] l.kind = "exits" ->
            /\ p > 1 /\ out[p - 1].kind \in {"label", "item", "placeholder"}
            /\ (p = n \/ out[p + 1].kind = "blank")

\* C9: the dump holds exactly one entry per node, in the natural-sort order
\* of the addresses (b2 before b10), with a blank line between consecutive
\* entries and none before the first; in each entry the lines are the
\* sorted predecessors, the DFS number if the node has one, the label, the
\* block contents or the placeholder, and the exits as (condition or None,
\* successor) pairs in the order the graph gives the successors.
C9_DumpOrder ==
    dumped =>
        LET L == SelectSeq(out, IsLabel) IN
        /\ Len(L) = Len(cfg.nodes)
        /\ {L[i].addr : i \in DOMAIN L} = Range(cfg.nodes)
        /\ \A i, j \in DOMAIN L :
              i < j => ~KeyLt(natural_sort_key(L[j].addr),
                              natural_sort_key(L[i].addr))
        /\ \A i, j \in DOMAIN L : (L[i].addr = B2 /\ L[j].addr = B10) => i < j
        /\ (out # << >> => out[1].kind = "pred")
        /\ \A p \in DOMAIN out : LineInPlace(p)

C9_Witness ==
    /\ dumped
    /\ cfg.nodes = <<B10, B2>>
    /\ "dfsno" \in DOMAIN cfg.info[B2] /\ "dfsno" \in DOMAIN cfg.info[B10]
    /\ Len(cfg.edges) = 2 /\ cfg.edges[1].from = B2 /\ cfg.edges[1].cond # None
    /\ Len(out) = 11


-----------------------------------------------------------------------------
(* handle_file: parse, apply the script, render *)

\* the names globals() holds: the passes, and names that are no functions
Passes == {"dce"}
NotCallable == {"sys"}
XformNames == Passes \cup NotCallable \cup {"nosuch"}
EntryTypes == {"xform:", "xform_bblock:", "other:"}
ScriptEntries == [type : EntryTypes, xform : XformNames]
Scripts == UNION {[1..n -> ScriptEntries] : n \in 0..MaxScriptLen}

Args ==
    [debug : BOOLEAN, script : {"", "mod"}, output : BOOLEAN,
     format : {"none", "bblocks", "asm", "c"}]

\* an outcome that skips an entry whose pass is not found
EntryOutcome_skip(entry) ==
    IF entry.xform \notin Passes \cup NotCallable
    THEN [err |-> "", mutations |-> << >>]
    ELSE IF entry.type \notin {"xform:", "xform_bblock:"}
    THEN [err |-> "AssertionError", mutations |-> << >>]
    ELSE IF entry.xform \in NotCallable
    THEN [err |-> "TypeError", mutations |-> << >>]
    ELSE [err |-> "", mutations |-> <<entry>>]

\* one iteration of the loop over p.script: func = globals()[xform] first,
\* then func(cfg), foreach_bblock(cfg, func) or assert 0 by the entry type
EntryOutcome(entry) ==
    IF entry.xform \notin Passes \cup NotCallable
    THEN [err |-> "KeyError", mutations |-> << >>]
    ELSE IF entry.type \notin {"xform:", "xform_bblock:"}
    THEN [err |-> "AssertionError", mutations |-> << >>]
    ELSE IF entry.xform \in NotCallable
    THEN [err |-> "TypeError", mutations |-> << >>]
    ELSE [err |-> "", mutations |-> <<entry>>]

\* the state after cfg = p.parse(), for every command line and script
InitPipe ==
    /\ pc = "debug_in" /\ args \in Args /\ script \in Scripts
    /\ idx = 0 /\ log = << >>
    /\ outfile = [opened |-> FALSE, written |-> << >>, closed |-> FALSE]
    /\ dbg = {} /\ exc = ""
    /\ IdleExpr /\ IdleCond /\ IdleInst /\ IdleDump

\* if args.debug: the .0.bb and .0.dot files are written
DebugIn ==
    /\ pc = "debug_in"
    /\ dbg' = IF args.debug THEN dbg \cup {".0.bb", ".0.dot"} ELSE dbg
    /\ pc' = "script"
    /\ UNCHANGED <<args, script, idx, log, outfile, exc,
                   exprVars, condVars, instVars, dumpVars>>

\* if args.script: mod = __import__(args.script); mod.apply(cfg)
ApplyModule ==
    /\ pc = "script" /\ args.script # ""
    /\ log' = Append(log, [type |-> "module", xform |-> args.script])
    /\ pc' = "debug_out"
    /\ UNCHANGED <<args, script, idx, outfile, dbg, exc,
                   exprVars, condVars, instVars, dumpVars>>

\* elif hasattr(p, "script"): the next entry of p.script
ApplyEntry ==
    /\ pc = "script" /\ args.script = "" /\ idx < Len(script)
    /\ LET r == EntryOutcome(script[idx + 1]) IN
       /\ log' = log \o r.mutations
       /\ exc' = r.err
       /\ IF r.err = "" THEN idx' = idx + 1 /\ pc' = pc
          ELSE idx' = idx /\ pc' = "aborted"
    /\ UNCHANGED <<args, script, outfile, dbg,
                   exprVars, condVars, instVars, dumpVars>>

\* the loop over p.script ends
ScriptDone ==
    /\ pc = "script" /\ args.script = "" /\ idx = Len(script)
    /\ pc' = "debug_out"
    /\ UNCHANGED <<args, script, idx, log, outfile, dbg, exc,
                   exprVars, condVars, instVars, dumpVars>>

\* if args.debug: the .out.bb and .out.dot files are written
DebugOut ==
    /\ pc = "debug_out"
    /\ dbg' = IF args.debug THEN dbg \cup {".out.bb", ".out.dot"} ELSE dbg
    /\ pc' = "open"
    /\ UNCHANGED <<args, script, idx, log, outfile, exc,
                   exprVars, condVars, instVars, dumpVars>>

\* out = open(args.output, "w") or out = sys.stdout
OpenOutput ==
    /\ pc = "open"
    /\ outfile' = [outfile EXCEPT !.opened = TRUE]
    /\ pc' = "print"
    /\ UNCHANGED <<args, script, idx, log, dbg, exc,
                   exprVars, condVars, instVars, dumpVars>>

\* the printer of args.format; the C printer numbers the graph first
PrintOutput ==
    /\ pc = "print"
    /\ log' = IF args.format = "c"
              THEN Append(log, [type |-> "render", xform |-> "number_postorder"])
              ELSE log
    /\ outfile' = IF args.format = "none" THEN outfile
                  ELSE [outfile EXCEPT !.written = Append(@, args.format)]
    /\ pc' = "close"
    /\ UNCHANGED <<args, script, idx, dbg, exc,
                   exprVars, condVars, instVars, dumpVars>>

\* if args.output: out.close(); return cfg
CloseOutput ==
    /\ pc = "close"
    /\ outfile' = [outfile EXCEPT !.closed = args.output]
    /\ pc' = "done"
    /\ UNCHANGED <<args, script, idx, log, dbg, exc,
                   exprVars, condVars, instVars, dumpVars>>

NextPipe ==
    \/ DebugIn \/ ApplyModule \/ ApplyEntry \/ ScriptDone
    \/ DebugOut \/ OpenOutput \/ PrintOutput \/ CloseOutput

SpecPipe == InitPipe /\ [][NextPipe]_vars

-----------------------------------------------------------------------------
(* Claims on the pipeline *)

\* the entries of the script up to entry n, as mutations of the graph
Applied(n) == SubSeq(script, 1, n)

\* the output step has started
OutputStarted == outfile.opened \/ outfile.written # << >>

C10_State ==
    args.script = "" =>
        \* the passes applied so far are the first idx entries, in order
        /\ idx <= Len(script)
        /\ Len(log) >= idx /\ SubSeq(log, 1, idx) = Applied(idx)
        /\ (~OutputStarted => log = Applied(idx))
        \* rendering starts only after the last entry, and without an error
        /\ (OutputStarted => idx = Len(script) /\ exc = "" /\ pc # "aborted")
        \* an entry naming a pass that does not exist stops the run before
        \* it: neither it nor a later entry is applied, no output is started
        /\ \A i \in DOMAIN script :
              script[i].xform \notin Passes =>
                  /\ idx < i /\ log = Applied(idx)
                  /\ ~OutputStarted
                  /\ pc \in {"debug_in", "script", "aborted"}
                  /\ (idx = i - 1 /\ pc # "debug_in" /\ pc # "script"
                          => pc = "aborted" /\ exc # "")

C10_Step ==
    \* an aborted run takes no further step
    /\ (pc = "aborted" => UNCHANGED vars)
    \* the graph is mutated by one entry at a time, the next of the script
    /\ ((args.script = "" /\ log' # log /\ pc = "script") =>
            /\ idx' = idx + 1
            /\ log' = Append(log, script[idx']))
    \* before the output step only the script mutates the graph
    /\ ((args.script = "" /\ log' # log) => pc \in {"script", "print"})

\* C10: with the parser's embedded script the passes are applied one at a
\* time in script order and rendering starts only after the last one; an
\* entry naming a pass that does not exist aborts the run: that entry and
\* the later ones mutate nothing and the output is never opened or written.
C10_ScriptOrderAndAbort == [](C10_State) /\ [][C10_Step]_vars

C10_Witness ==
    /\ pc = "aborted" /\ exc = "KeyError" /\ args.script = ""
    /\ Len(script) = 2 /\ idx = 1 /\ log = <<script[1]>>
    /\ script[2].xform = "nosuch" /\ ~OutputStarted


=============================================================================
